---- MODULE Spec2Model ----
(***************************************************************************)
(* Model of the lock-free single-producer/single-consumer primitives of    *)
(* vbardakos/brainstorm:                                                   *)
(*   - the ring SPSCEphemeral<T, N> / EphemeralBuffer<T> with sink_value   *)
(*     and spit_value (src/ephemeral/spsc.rs, src/ephemeral/smsc.rs),      *)
(*     driven as test_threaded_spsc drives it;                             *)
(*   - the one-slot mailbox EphemeralSource<T> with set and get            *)
(*     (src/main.rs), driven as main drives it;                            *)
(*   - the ring driven by the single thread of test_seq_spsc;              *)
(*   - a mailbox and a two-slot ring driven side by side;                  *)
(*   - under MisuseSpec, the ring and the mailbox with a second thread     *)
(*     calling sink_value, spit_value or set next to the two.              *)
(*                                                                         *)
(* Every atomic load, plain slot access and atomic store is one step, and  *)
(* the threads interleave freely.      Atomic loads return the latest      *)
(* value in the interleaving.  Happens-before is tracked with vector       *)
(* clocks: a Release store attaches the storing thread's clock to the      *)
(* atomic, an Acquire load joins the attached clock into the loading       *)
(* thread's clock, Relaxed accesses transfer nothing.  A plain read of a   *)
(* slot whose last write does not happen-before it is a data race; its     *)
(* result is then either the slot's present content or the content the     *)
(* slot had before that write.                                             *)
(***************************************************************************)
EXTENDS Integers, Sequences, FiniteSets, TLC

\* ------------------------------------------------------------- bounds
\* Loop count of the two drivers (10000 in the tests, 1000 in main).
M == 5
\* Largest ring size N that Init draws.
MaxN == 4
\* Cap of the per-call step counters pk, ck.
MaxSteps == 5

\* ------------------------------------------------------------- values
\* Content of a slot that was never written (MaybeUninit::uninit()).
Uninit == -1

Max(a, b) == IF a >= b THEN a ELSE b
Min(a, b) == IF a <= b THEN a ELSE b

\* Results of the calls.
Ok == [kind |-> "Ok", val |-> 0]
Err(v) == [kind |-> "Err", val |-> v]
Some(v) == [kind |-> "Some", val |-> v]
None == [kind |-> "None", val |-> 0]

\* --------------------------------------------------- memory orderings
\* The Ordering argument of each atomic access, as written in the source.
SinkHeadLoadOrd == "Acquire"
SinkTailLoadOrd == "Relaxed"
SinkTailStoreOrd == "Release"
SpitHeadLoadOrd == "Acquire"
SpitTailLoadOrd == "Relaxed"
SpitHeadStoreOrd_Relaxed == "Relaxed"
SpitHeadStoreOrd == "Release"
SetLoadOrd == "Acquire"
SetStoreOrd == "Release"
GetLoadOrd_Relaxed == "Relaxed"
GetLoadOrd == "Acquire"
GetStoreOrd_Relaxed == "Relaxed"
GetStoreOrd == "Release"

\* Vector clocks over the two threads: P the producer, C the consumer.
Bottom == [P |-> 0, C |-> 0]
Join(a, b) == [P |-> Max(a.P, b.P), C |-> Max(a.C, b.C)]
\* The loading thread's clock after a load with ordering ord of an atomic
\* whose latest store carries the clock msg.
AfterLoad(ord, vc, msg) == IF ord = "Acquire" THEN Join(vc, msg) ELSE vc
\* The clock a store with ordering ord attaches to the atomic.
MsgOfStore(ord, vc) == IF ord = "Release" THEN vc ELSE Bottom

VARIABLES
  prog,      \* which program runs: "ring" (test_threaded_spsc), "box" (main)
             \* "seq" (test_seq_spsc) or "pair" (a mailbox next to a ring)
  N,         \* number of slots of the ring
  bufr,      \* ring storage, 0..N-1 -> value
  head,      \* read index
  tail,      \* write index
  value,     \* mailbox slot
  packed,    \* mailbox flag
  \* producer thread
  ppc, pi, pval, ph, pt, pnext, pres,
  \* consumer thread
  cpc, ci, ch, ct, cnext, cval, cres,
  \* happens-before bookkeeping
  pvc, cvc,            \* the threads' vector clocks
  headMsg, tailMsg,    \* clock attached to the latest store of head / tail
  packedMsg,           \* clock attached to the latest store of packed
  wEpoch, rEpoch,      \* per ring slot: producer clock of its last write,
                       \* consumer clock of its last read (0: none)
  vW, vR,              \* the same for the mailbox slot
  old, oldValue,       \* content of each slot before its last write
  live,                \* per ring slot: written and not read since
  \* history
  accepted,  \* values of the sink_value calls that returned Ok / of completed set calls
  issued,    \* values passed to the calls started so far (sink_value or set)
  popped,    \* values returned by successful spit_value / get calls
  pcallH,    \* number of completed pops when the running sink_value loaded head
  pretried,  \* the producer's current value was refused (ring) or made to wait (box)
  pk, ck,    \* steps taken so far inside the running call (capped at MaxSteps)
  raceR, raceW, \* some plain read / write raced
  \* the mailbox run next to a ring ("pair")
  bpvc, bcvc,   \* vector clocks of the mailbox's producer and consumer
  bres, gres,   \* result of the latest set attempt and of the latest get
  \* a second thread in the role of one of the two ("MisuseSpec")
  qpc, qj, qval, qh, qt, qnext, qres,
  qseen         \* the clocks the second thread has acquired

ringVars == <<bufr, head, tail, headMsg, tailMsg, wEpoch, rEpoch, old, live>>
boxVars == <<value, packed, packedMsg, vW, vR, oldValue>>
prodVars == <<ppc, pi, pval, ph, pt, pnext, pres, pvc, pcallH, pretried, pk>>
consVars == <<cpc, ci, ch, ct, cnext, cval, cres, cvc, ck>>
histVars == <<accepted, issued, popped, raceR, raceW>>
pairVars == <<bpvc, bcvc, bres, gres>>
secondVars == <<qpc, qj, qval, qh, qt, qnext, qres, qseen>>
vars == <<prog, N, ringVars, boxVars, prodVars, consVars, histVars,
          pairVars, secondVars>>

Step(k) == Min(k + 1, MaxSteps)

\* ---------------------------------------------------------------- Init
\* SPSCEphemeral::new / EphemeralBuffer::new / EphemeralSource::new, and the
\* threads about to enter their loops; second is where the second thread of
\* a role stands ("q_off": there is none).
Start(second) ==
  /\ \/ prog = "ring" /\ N \in 1..MaxN
     \/ prog = "box" /\ N = 1
     \/ prog = "seq" /\ N \in 1..MaxN
     \/ prog = "pair" /\ N = 2
  /\ bufr = [i \in 0..(N - 1) |-> Uninit]
  /\ head = 0 /\ tail = 0
  /\ value = Uninit /\ packed = FALSE
  /\ ppc = "p_loop" /\ pi = 0 /\ pval = 0 /\ ph = 0 /\ pt = 0 /\ pnext = 0
  /\ pres = None
  /\ cpc = "c_loop" /\ ci = 0 /\ ch = 0 /\ ct = 0 /\ cnext = 0 /\ cval = 0
  /\ cres = None
  /\ pvc = [P |-> 1, C |-> 0] /\ cvc = [P |-> 0, C |-> 1]
  /\ headMsg = Bottom /\ tailMsg = Bottom /\ packedMsg = Bottom
  /\ wEpoch = [i \in 0..(N - 1) |-> 0] /\ rEpoch = [i \in 0..(N - 1) |-> 0]
  /\ vW = 0 /\ vR = 0
  /\ old = [i \in 0..(N - 1) |-> Uninit] /\ oldValue = Uninit
  /\ live = [i \in 0..(N - 1) |-> FALSE]
  /\ accepted = <<>> /\ issued = <<>> /\ popped = <<>>
  /\ pcallH = 0 /\ pretried = FALSE /\ pk = 0 /\ ck = 0
  /\ raceR = FALSE /\ raceW = FALSE
  /\ bpvc = [P |-> 1, C |-> 0] /\ bcvc = [P |-> 0, C |-> 1]
  /\ bres = None /\ gres = None
  /\ qpc = second /\ qj = 0 /\ qval = 0 /\ qh = 0 /\ qt = 0 /\ qnext = 0
  /\ qres = None /\ qseen = Bottom

\* The programs as the repository runs them: one thread per role.
Init == Start("q_off")

\* ------------------------------------------------------ ring: producer
\* for i in 0..10000 { while sink_value(&producer, i).is_err() { .. } }
ProduceLoop ==
  /\ prog = "ring" /\ ppc = "p_loop"
  /\ IF pi < M
       THEN /\ ppc' = "sink_head"
            /\ pval' = pi
            /\ issued' = Append(issued, pi)
       ELSE /\ ppc' = "p_done"
            /\ UNCHANGED <<pval, issued>>
  /\ pk' = 0 /\ pretried' = FALSE
  /\ UNCHANGED <<prog, N, pairVars, secondVars, ringVars, boxVars, consVars,
                 pi, ph, pt, pnext, pres, pvc, pcallH, accepted, popped, raceR, raceW>>

\* let head = b.head.load(Ordering::Acquire);
SinkLoadHead ==
  /\ prog = "ring" /\ ppc = "sink_head"
  /\ ph' = head
  /\ pvc' = AfterLoad(SinkHeadLoadOrd, pvc, headMsg)
  /\ pcallH' = Len(popped)
  /\ pk' = Step(pk)
  /\ ppc' = "sink_tail"
  /\ UNCHANGED <<prog, N, pairVars, secondVars, ringVars, boxVars, consVars, histVars,
                 pi, pval, pt, pnext, pres, pretried>>

\* (mutant) reports Full one slot early
SinkFull_OneEarly(next, h) == (next + 1) % N = h
\* (mutant) tests the successor of tail without reducing it modulo N
SinkFull_Unwrapped(next, h) == tail + 1 = h
\* (mutant) compares next with the index it was computed from
SinkFull_WrongIndex(next, h) == next = tail
\* if next == head
SinkFull(next, h) == next = h

\* (mutant) stores the value into slot[tail] before testing for Full
SinkLoadTail_WriteFirst ==
  /\ prog = "ring" /\ ppc = "sink_tail"
  /\ pvc' = AfterLoad(SinkTailLoadOrd, pvc, tailMsg)
  /\ pk' = Step(pk)
  /\ bufr' = [bufr EXCEPT ![tail] = pval]
  /\ IF SinkFull((tail + 1) % N, ph)
       THEN /\ pres' = Err(pval)
            /\ ppc' = "p_ret"
            /\ ph' = 0 /\ pt' = 0 /\ pnext' = 0
       ELSE /\ pt' = tail
            /\ pnext' = (tail + 1) % N
            /\ ppc' = "sink_write"
            /\ UNCHANGED <<ph, pres>>
  /\ UNCHANGED <<prog, N, pairVars, secondVars, head, tail, headMsg, tailMsg, wEpoch, rEpoch, old, live,
                 boxVars, consVars, histVars, pi, pval, pcallH, pretried>>

\* let tail = b.tail.load(Ordering::Relaxed); let next = (tail + 1) % N;
\* if next == head { return Err(val); }
SinkLoadTail ==
  /\ prog = "ring" /\ ppc = "sink_tail"
  /\ pvc' = AfterLoad(SinkTailLoadOrd, pvc, tailMsg)
  /\ pk' = Step(pk)
  /\ IF SinkFull((tail + 1) % N, ph)
       THEN /\ pres' = Err(pval)
            /\ ppc' = "p_ret"
            /\ ph' = 0 /\ pt' = 0 /\ pnext' = 0
       ELSE /\ pt' = tail
            /\ pnext' = (tail + 1) % N
            /\ ppc' = "sink_write"
            /\ UNCHANGED <<ph, pres>>
  /\ UNCHANGED <<prog, N, pairVars, secondVars, ringVars, boxVars, consVars, histVars,
                 pi, pval, pcallH, pretried>>

\* (mutant) stores the value into slot[next]
SinkWrite_AtNext ==
  /\ prog = "ring" /\ ppc = "sink_write"
  /\ old' = [old EXCEPT ![pnext] = bufr[pnext]]
  /\ bufr' = [bufr EXCEPT ![pnext] = pval]
  /\ wEpoch' = [wEpoch EXCEPT ![pnext] = pvc.P]
  /\ live' = [live EXCEPT ![pnext] = TRUE]
  /\ raceW' = (raceW \/ rEpoch[pnext] > pvc.C)
  /\ pk' = Step(pk)
  /\ ppc' = "sink_store"
  /\ UNCHANGED <<prog, N, pairVars, secondVars, head, tail, headMsg, tailMsg, rEpoch, boxVars, consVars,
                 pi, pval, ph, pt, pnext, pres, pvc, pcallH, pretried,
                 accepted, issued, popped, raceR>>

\* unsafe { (*b.bufr.get())[tail].as_mut_ptr().write(val) };
SinkWrite ==
  /\ prog = "ring" /\ ppc = "sink_write"
  /\ old' = [old EXCEPT ![pt] = bufr[pt]]
  /\ bufr' = [bufr EXCEPT ![pt] = pval]
  /\ wEpoch' = [wEpoch EXCEPT ![pt] = pvc.P]
  /\ live' = [live EXCEPT ![pt] = TRUE]
  /\ raceW' = (raceW \/ rEpoch[pt] > pvc.C)
  /\ pk' = Step(pk)
  /\ ppc' = "sink_store"
  /\ UNCHANGED <<prog, N, pairVars, secondVars, head, tail, headMsg, tailMsg, rEpoch, boxVars, consVars,
                 pi, pval, ph, pt, pnext, pres, pvc, pcallH, pretried,
                 accepted, issued, popped, raceR>>

\* (mutant) stores the successor of the current tail
SinkStore_FromCurrentTail ==
  /\ prog = "ring" /\ ppc = "sink_store"
  /\ tail' = (tail + 1) % N
  /\ tailMsg' = MsgOfStore(SinkTailStoreOrd, pvc)
  /\ pvc' = [pvc EXCEPT !.P = pvc.P + 1]
  /\ accepted' = Append(accepted, pval)
  /\ pres' = Ok
  /\ pk' = Step(pk)
  /\ ppc' = "p_ret"
  /\ ph' = 0 /\ pt' = 0 /\ pnext' = 0
  /\ UNCHANGED <<prog, N, pairVars, secondVars, bufr, head, headMsg, wEpoch, rEpoch, old, live, boxVars, consVars,
                 pi, pval, pcallH, pretried, issued, popped, raceR, raceW>>

\* b.tail.store(next, Ordering::Release); Ok(())
SinkStore ==
  /\ prog = "ring" /\ ppc = "sink_store"
  /\ tail' = pnext
  /\ tailMsg' = MsgOfStore(SinkTailStoreOrd, pvc)
  /\ pvc' = [pvc EXCEPT !.P = pvc.P + 1]
  /\ accepted' = Append(accepted, pval)
  /\ pres' = Ok
  /\ pk' = Step(pk)
  /\ ppc' = "p_ret"
  /\ ph' = 0 /\ pt' = 0 /\ pnext' = 0
  /\ UNCHANGED <<prog, N, pairVars, secondVars, bufr, head, headMsg, wEpoch, rEpoch, old, live, boxVars, consVars,
                 pi, pval, pcallH, pretried, issued, popped, raceR, raceW>>

\* while sink_value(..).is_err() { thread::yield_now(); }
ProduceRet ==
  /\ prog = "ring" /\ ppc = "p_ret"
  /\ IF pres.kind = "Err"
       THEN /\ ppc' = "sink_head"
            /\ pretried' = TRUE
            /\ pk' = 0
            /\ UNCHANGED pi
       ELSE /\ ppc' = "p_loop"
            /\ pi' = pi + 1
            /\ UNCHANGED <<pretried, pk>>
  /\ UNCHANGED <<prog, N, pairVars, secondVars, ringVars, boxVars, consVars, histVars,
                 pval, ph, pt, pnext, pres, pvc, pcallH>>

\* ------------------------------------------------------ ring: consumer
\* for i in 0..10000 { loop { if let Some(result) = spit_value(&consumer) .. } }
ConsumeLoop ==
  /\ prog = "ring" /\ cpc = "c_loop"
  /\ cpc' = IF ci < M THEN "spit_head" ELSE "c_done"
  /\ ck' = 0
  /\ UNCHANGED <<prog, N, pairVars, secondVars, ringVars, boxVars, prodVars, histVars,
                 ci, ch, ct, cnext, cval, cres, cvc>>

\* let head = b.head.load(Ordering::Acquire);
SpitLoadHead ==
  /\ prog = "ring" /\ cpc = "spit_head"
  /\ ch' = head
  /\ cvc' = AfterLoad(SpitHeadLoadOrd, cvc, headMsg)
  /\ ck' = Step(ck)
  /\ cpc' = "spit_tail"
  /\ UNCHANGED <<prog, N, pairVars, secondVars, ringVars, boxVars, prodVars, histVars,
                 ci, ct, cnext, cval, cres>>

\* (mutant) tests the next index, as sink_value does
SpitEmpty_Next(h, t) == (h + 1) % N = t
\* if head == tail
SpitEmpty(h, t) == h = t

\* (mutant) waits for a value instead of returning None
SpitLoadTail_Spins ==
  /\ prog = "ring" /\ cpc = "spit_tail"
  /\ cvc' = AfterLoad(SpitTailLoadOrd, cvc, tailMsg)
  /\ ck' = Step(ck)
  /\ IF SpitEmpty(ch, tail)
       THEN UNCHANGED <<cpc, ch, ct, cnext, cres>>
       ELSE /\ ct' = tail
            /\ cnext' = (ch + 1) % N
            /\ cpc' = "spit_read"
            /\ UNCHANGED <<ch, cres>>
  /\ UNCHANGED <<prog, N, pairVars, secondVars, ringVars, boxVars, prodVars, histVars, ci, cval>>

\* let tail = b.tail.load(Ordering::Relaxed); let next = (head + 1) % N;
\* if head == tail { return None; }
SpitLoadTail ==
  /\ prog = "ring" /\ cpc = "spit_tail"
  /\ cvc' = AfterLoad(SpitTailLoadOrd, cvc, tailMsg)
  /\ ck' = Step(ck)
  /\ IF SpitEmpty(ch, tail)
       THEN /\ cres' = None
            /\ cpc' = "c_ret"
            /\ ch' = 0 /\ ct' = 0 /\ cnext' = 0
       ELSE /\ ct' = tail
            /\ cnext' = (ch + 1) % N
            /\ cpc' = "spit_read"
            /\ UNCHANGED <<ch, cres>>
  /\ UNCHANGED <<prog, N, pairVars, secondVars, ringVars, boxVars, prodVars, histVars, ci, cval>>

\* What a plain read of a slot can return: its content cur or, when the last
\* write of the slot does not happen-before the read (lastW is not covered by
\* the reader's clock seen), also the content prev it had before that write.
ReadOutcomes(cur, prev, lastW, seen) ==
  IF lastW > seen THEN {cur, prev} ELSE {cur}

\* let val = unsafe { (*b.bufr.get())[head].as_ptr().read() };
SpitRead ==
  /\ prog = "ring" /\ cpc = "spit_read"
  /\ \E v \in ReadOutcomes(bufr[ch], old[ch], wEpoch[ch], cvc.P) : cval' = v
  /\ rEpoch' = [rEpoch EXCEPT ![ch] = cvc.C]
  /\ live' = [live EXCEPT ![ch] = FALSE]
  /\ raceR' = (raceR \/ wEpoch[ch] > cvc.P)
  /\ ck' = Step(ck)
  /\ cpc' = "spit_store"
  /\ UNCHANGED <<prog, N, pairVars, secondVars, bufr, head, tail, headMsg, tailMsg, wEpoch, old,
                 boxVars, prodVars, ci, ch, ct, cnext, cres, cvc,
                 accepted, issued, popped, raceW>>

\* (mutant) stores the loaded tail into head
SpitStore_ToTail ==
  /\ prog = "ring" /\ cpc = "spit_store"
  /\ head' = ct
  /\ headMsg' = MsgOfStore(SpitHeadStoreOrd, cvc)
  /\ cvc' = [cvc EXCEPT !.C = cvc.C + 1]
  /\ popped' = Append(popped, cval)
  /\ cres' = Some(cval)
  /\ ck' = Step(ck)
  /\ cpc' = "c_ret"
  /\ ch' = 0 /\ ct' = 0 /\ cnext' = 0 /\ cval' = 0
  /\ UNCHANGED <<prog, N, pairVars, secondVars, bufr, tail, tailMsg, wEpoch, rEpoch, old, live,
                 boxVars, prodVars, ci, accepted, issued, raceR, raceW>>

\* b.head.store(next, Ordering::Release); Some(val)
SpitStore ==
  /\ prog = "ring" /\ cpc = "spit_store"
  /\ head' = cnext
  /\ headMsg' = MsgOfStore(SpitHeadStoreOrd, cvc)
  /\ cvc' = [cvc EXCEPT !.C = cvc.C + 1]
  /\ popped' = Append(popped, cval)
  /\ cres' = Some(cval)
  /\ ck' = Step(ck)
  /\ cpc' = "c_ret"
  /\ ch' = 0 /\ ct' = 0 /\ cnext' = 0 /\ cval' = 0
  /\ UNCHANGED <<prog, N, pairVars, secondVars, bufr, tail, tailMsg, wEpoch, rEpoch, old, live,
                 boxVars, prodVars, ci, accepted, issued, raceR, raceW>>

\* if let Some(result) = .. { assert_eq!(result, i); break; } thread::yield_now();
ConsumeRet ==
  /\ prog = "ring" /\ cpc = "c_ret"
  /\ IF cres.kind = "Some"
       THEN IF cres.val = ci
              THEN cpc' = "c_loop" /\ ci' = ci + 1 /\ UNCHANGED ck
              ELSE cpc' = "c_panic" /\ UNCHANGED <<ci, ck>>
       ELSE cpc' = "spit_head" /\ ck' = 0 /\ UNCHANGED ci
  /\ UNCHANGED <<prog, N, pairVars, secondVars, ringVars, boxVars, prodVars, histVars,
                 ch, ct, cnext, cval, cres, cvc>>

\* --------------------------------------------------- mailbox: producer
\* for i in 0..1000 { producer.set(i); }
BoxProduceLoop ==
  /\ prog = "box" /\ ppc = "p_loop"
  /\ IF pi < M
       THEN /\ ppc' = "set_load"
            /\ pval' = pi
            /\ issued' = Append(issued, pi)
       ELSE /\ ppc' = "p_done"
            /\ UNCHANGED <<pval, issued>>
  /\ pk' = 0 /\ pretried' = FALSE
  /\ UNCHANGED <<prog, N, pairVars, secondVars, ringVars, boxVars, consVars,
                 pi, ph, pt, pnext, pres, pvc, pcallH, accepted, popped, raceR, raceW>>

\* (mutant) loads the flag once and goes on whatever it is
SetLoad_NoWait ==
  /\ prog = "box" /\ ppc = "set_load"
  /\ pvc' = AfterLoad(SetLoadOrd, pvc, packedMsg)
  /\ pk' = Step(pk)
  /\ ppc' = "set_write"
  /\ UNCHANGED <<prog, N, pairVars, secondVars, ringVars, boxVars, consVars, histVars,
                 pi, pval, ph, pt, pnext, pres, pcallH, pretried>>

\* while self.packed.load(Ordering::Acquire) { thread::yield_now(); }
SetLoad ==
  /\ prog = "box" /\ ppc = "set_load"
  /\ pvc' = AfterLoad(SetLoadOrd, pvc, packedMsg)
  /\ pk' = Step(pk)
  /\ IF packed
       THEN pretried' = TRUE /\ UNCHANGED ppc
       ELSE ppc' = "set_write" /\ UNCHANGED pretried
  /\ UNCHANGED <<prog, N, pairVars, secondVars, ringVars, boxVars, consVars, histVars,
                 pi, pval, ph, pt, pnext, pres, pcallH>>

\* unsafe { self._ptr().write(value) };
SetWrite ==
  /\ prog = "box" /\ ppc = "set_write"
  /\ oldValue' = value
  /\ value' = pval
  /\ vW' = pvc.P
  /\ raceW' = (raceW \/ vR > pvc.C)
  /\ pk' = Step(pk)
  /\ ppc' = "set_store"
  /\ UNCHANGED <<prog, N, pairVars, secondVars, ringVars, packed, packedMsg, vR, consVars,
                 pi, pval, ph, pt, pnext, pres, pvc, pcallH, pretried,
                 accepted, issued, popped, raceR>>

\* self.packed.store(true, Ordering::Release);
SetStore ==
  /\ prog = "box" /\ ppc = "set_store"
  /\ packed' = TRUE
  /\ packedMsg' = MsgOfStore(SetStoreOrd, pvc)
  /\ pvc' = [pvc EXCEPT !.P = pvc.P + 1]
  /\ accepted' = Append(accepted, pval)
  /\ pres' = Ok
  /\ pk' = Step(pk)
  /\ ppc' = "p_ret"
  /\ UNCHANGED <<prog, N, pairVars, secondVars, ringVars, value, vW, vR, oldValue, consVars,
                 pi, pval, ph, pt, pnext, pcallH, pretried, issued, popped, raceR, raceW>>

\* set returned: the next iteration of for i in 0..1000
BoxProduceRet ==
  /\ prog = "box" /\ ppc = "p_ret"
  /\ ppc' = "p_loop"
  /\ pi' = pi + 1
  /\ UNCHANGED <<prog, N, pairVars, secondVars, ringVars, boxVars, consVars, histVars,
                 pval, ph, pt, pnext, pres, pvc, pcallH, pretried, pk>>

\* --------------------------------------------------- mailbox: consumer
\* for _ in 0..1000 { loop { if let Some(value) = consumer.get() .. } }
BoxConsumeLoop ==
  /\ prog = "box" /\ cpc = "c_loop"
  /\ cpc' = IF ci < M THEN "get_load" ELSE "c_done"
  /\ ck' = 0
  /\ UNCHANGED <<prog, N, pairVars, secondVars, ringVars, boxVars, prodVars, histVars,
                 ci, ch, ct, cnext, cval, cres, cvc>>

\* if !self.packed.load(Ordering::Acquire) { return None; }
GetLoad ==
  /\ prog = "box" /\ cpc = "get_load"
  /\ cvc' = AfterLoad(GetLoadOrd, cvc, packedMsg)
  /\ ck' = Step(ck)
  /\ IF ~packed
       THEN cres' = None /\ cpc' = "c_ret"
       ELSE cpc' = "get_read" /\ UNCHANGED cres
  /\ UNCHANGED <<prog, N, pairVars, secondVars, ringVars, boxVars, prodVars, histVars,
                 ci, ch, ct, cnext, cval>>

\* let value = unsafe { self._ptr().read() };
GetRead ==
  /\ prog = "box" /\ cpc = "get_read"
  /\ \E v \in ReadOutcomes(value, oldValue, vW, cvc.P) : cval' = v
  /\ vR' = cvc.C
  /\ raceR' = (raceR \/ vW > cvc.P)
  /\ ck' = Step(ck)
  /\ cpc' = "get_store"
  /\ UNCHANGED <<prog, N, pairVars, secondVars, ringVars, value, packed, packedMsg, vW, oldValue,
                 prodVars, ci, ch, ct, cnext, cres, cvc,
                 accepted, issued, popped, raceW>>

\* self.packed.store(false, Ordering::Release); return Some(value);
GetStore ==
  /\ prog = "box" /\ cpc = "get_store"
  /\ packed' = FALSE
  /\ packedMsg' = MsgOfStore(GetStoreOrd, cvc)
  /\ cvc' = [cvc EXCEPT !.C = cvc.C + 1]
  /\ popped' = Append(popped, cval)
  /\ cres' = Some(cval)
  /\ ck' = Step(ck)
  /\ cpc' = "c_ret"
  /\ cval' = 0
  /\ UNCHANGED <<prog, N, pairVars, secondVars, ringVars, value, vW, vR, oldValue, prodVars,
                 ci, ch, ct, cnext, accepted, issued, raceR, raceW>>

\* if let Some(value) = consumer.get() { println!(..); break; } thread::yield_now();
BoxConsumeRet ==
  /\ prog = "box" /\ cpc = "c_ret"
  /\ IF cres.kind = "Some"
       THEN cpc' = "c_loop" /\ ci' = ci + 1 /\ UNCHANGED ck
       ELSE cpc' = "get_load" /\ ck' = 0 /\ UNCHANGED ci
  /\ UNCHANGED <<prog, N, pairVars, secondVars, ringVars, boxVars, prodVars, histVars,
                 ch, ct, cnext, cval, cres, cvc>>

\* --------------------------------------------- ring: test_seq_spsc
\* One thread pushes and pops in turn; a call is one step, there being no
\* other thread to interleave with.  The thread's clock is pvc.
\* for i in 0..10000 { if sink_value(&src, i).is_ok() { .. } .. }
SeqLoop ==
  /\ prog = "seq" /\ ppc = "p_loop"
  /\ IF pi < M
       THEN /\ ppc' = "seq_sink"
            /\ pval' = pi
            /\ issued' = Append(issued, pi)
       ELSE /\ ppc' = "p_done"
            /\ UNCHANGED <<pval, issued>>
  /\ UNCHANGED <<prog, N, pairVars, secondVars, ringVars, boxVars, consVars,
                 pi, ph, pt, pnext, pres, pvc, pcallH, pretried, pk,
                 accepted, popped, raceR, raceW>>

\* sink_value(&src, i), and panic!("Failed to consume") if it is not Ok
SeqSink ==
  /\ prog = "seq" /\ ppc = "seq_sink"
  /\ LET vc == AfterLoad(SinkTailLoadOrd,
                         AfterLoad(SinkHeadLoadOrd, pvc, headMsg), tailMsg)
         next == (tail + 1) % N
     IN IF SinkFull(next, head)
          THEN /\ pres' = Err(pval)
               /\ ppc' = "p_panic"
               /\ pvc' = vc
               /\ UNCHANGED <<ringVars, accepted, raceW>>
          ELSE /\ old' = [old EXCEPT ![tail] = bufr[tail]]
               /\ bufr' = [bufr EXCEPT ![tail] = pval]
               /\ wEpoch' = [wEpoch EXCEPT ![tail] = vc.P]
               /\ live' = [live EXCEPT ![tail] = TRUE]
               /\ raceW' = (raceW \/ rEpoch[tail] > vc.P)
               /\ tail' = next
               /\ tailMsg' = MsgOfStore(SinkTailStoreOrd, vc)
               /\ pvc' = [vc EXCEPT !.P = vc.P + 1]
               /\ accepted' = Append(accepted, pval)
               /\ pres' = Ok
               /\ ppc' = "seq_spit"
               /\ UNCHANGED <<head, headMsg, rEpoch>>
  /\ UNCHANGED <<prog, N, pairVars, secondVars, boxVars, consVars,
                 pi, pval, ph, pt, pnext, pcallH, pretried, pk,
                 issued, popped, raceR>>

\* let tmp = spit_value(&src).expect("Failed to produce"); assert_eq!(tmp, i);
SeqSpit ==
  /\ prog = "seq" /\ ppc = "seq_spit"
  /\ LET vc == AfterLoad(SpitTailLoadOrd,
                         AfterLoad(SpitHeadLoadOrd, pvc, headMsg), tailMsg)
         next == (head + 1) % N
     IN IF SpitEmpty(head, tail)
          THEN /\ cres' = None
               /\ ppc' = "p_panic"
               /\ pvc' = vc
               /\ UNCHANGED <<ringVars, popped, raceR, pi>>
          ELSE /\ \E v \in ReadOutcomes(bufr[head], old[head], wEpoch[head], vc.P) :
                    /\ cres' = Some(v)
                    /\ popped' = Append(popped, v)
                    /\ IF v = pi
                         THEN ppc' = "p_loop" /\ pi' = pi + 1
                         ELSE ppc' = "p_panic" /\ UNCHANGED pi
               /\ rEpoch' = [rEpoch EXCEPT ![head] = vc.P]
               /\ live' = [live EXCEPT ![head] = FALSE]
               /\ raceR' = (raceR \/ wEpoch[head] > vc.P)
               /\ head' = next
               /\ headMsg' = MsgOfStore(SpitHeadStoreOrd, vc)
               /\ pvc' = [vc EXCEPT !.P = vc.P + 1]
               /\ UNCHANGED <<bufr, tail, tailMsg, wEpoch, old>>
  /\ UNCHANGED <<prog, N, pairVars, secondVars, boxVars, cpc, ci, ch, ct, cnext, cval, cvc, ck,
                 pval, ph, pt, pnext, pres, pcallH, pretried, pk,
                 accepted, issued, raceW>>

\* The thread of test_seq_spsc.
Tester == SeqLoop \/ SeqSink \/ SeqSpit

\* ------------------------------------------- mailbox next to a ring
\* A mailbox and a ring with N = 2 are run side by side, each by its own
\* producer and consumer thread, and driven by the same operations: the
\* producer's attempt to hand over value i is one set attempt (one test of the
\* flag, and the write if it is false) and one sink_value(i); the consumer's
\* attempt to take a value is one get and one spit_value.  An operation is one
\* step.  The ring's threads have the clocks pvc and cvc, the mailbox's bpvc
\* and bcvc.

\* sink_value(&producer, i)
PairSink ==
  LET vc == AfterLoad(SinkTailLoadOrd,
                      AfterLoad(SinkHeadLoadOrd, pvc, headMsg), tailMsg)
      next == (tail + 1) % N
  IN IF SinkFull(next, head)
       THEN /\ pres' = Err(pi)
            /\ pvc' = vc
            /\ UNCHANGED <<ringVars, accepted, raceW, pi>>
       ELSE /\ old' = [old EXCEPT ![tail] = bufr[tail]]
            /\ bufr' = [bufr EXCEPT ![tail] = pi]
            /\ wEpoch' = [wEpoch EXCEPT ![tail] = vc.P]
            /\ live' = [live EXCEPT ![tail] = TRUE]
            /\ raceW' = (raceW \/ rEpoch[tail] > vc.C)
            /\ tail' = next
            /\ tailMsg' = MsgOfStore(SinkTailStoreOrd, vc)
            /\ pvc' = [vc EXCEPT !.P = vc.P + 1]
            /\ accepted' = Append(accepted, pi)
            /\ pres' = Ok
            /\ pi' = pi + 1
            /\ UNCHANGED <<head, headMsg, rEpoch>>

\* one turn of set(i): the flag is tested once; if it is true the caller has
\* to try again (reported like a refused push), else the value is handed over
PairSet ==
  LET vc == AfterLoad(SetLoadOrd, bpvc, packedMsg)
  IN IF packed
       THEN /\ bres' = Err(pi)
            /\ bpvc' = vc
            /\ UNCHANGED <<value, packed, packedMsg, vW, oldValue>>
       ELSE /\ oldValue' = value
            /\ value' = pi
            /\ vW' = vc.P
            /\ packed' = TRUE
            /\ packedMsg' = MsgOfStore(SetStoreOrd, vc)
            /\ bpvc' = [vc EXCEPT !.P = vc.P + 1]
            /\ bres' = Ok

\* The producer's attempt to hand over value i, made on both.
PairPush ==
  /\ prog = "pair" /\ pi < M
  /\ PairSink /\ PairSet
  /\ UNCHANGED <<prog, N, vR, secondVars, consVars, bcvc, gres,
                 ppc, pval, ph, pt, pnext, pcallH, pretried, pk,
                 issued, popped, raceR>>

\* spit_value(&consumer)
PairSpit ==
  LET vc == AfterLoad(SpitTailLoadOrd,
                      AfterLoad(SpitHeadLoadOrd, cvc, headMsg), tailMsg)
      next == (head + 1) % N
  IN IF SpitEmpty(head, tail)
       THEN /\ cres' = None
            /\ cvc' = vc
            /\ UNCHANGED <<ringVars, popped, raceR, ci>>
       ELSE /\ \E v \in ReadOutcomes(bufr[head], old[head], wEpoch[head], vc.P) :
                 /\ cres' = Some(v)
                 /\ popped' = Append(popped, v)
            /\ rEpoch' = [rEpoch EXCEPT ![head] = vc.C]
            /\ live' = [live EXCEPT ![head] = FALSE]
            /\ raceR' = (raceR \/ wEpoch[head] > vc.P)
            /\ head' = next
            /\ headMsg' = MsgOfStore(SpitHeadStoreOrd, vc)
            /\ cvc' = [vc EXCEPT !.C = vc.C + 1]
            /\ ci' = ci + 1
            /\ UNCHANGED <<bufr, tail, tailMsg, wEpoch, old>>

\* consumer.get()
PairGet ==
  LET vc == AfterLoad(GetLoadOrd, bcvc, packedMsg)
  IN IF ~packed
       THEN /\ gres' = None
            /\ bcvc' = vc
            /\ UNCHANGED <<packed, packedMsg, vR>>
       ELSE /\ \E v \in ReadOutcomes(value, oldValue, vW, vc.P) : gres' = Some(v)
            /\ vR' = vc.C
            /\ packed' = FALSE
            /\ packedMsg' = MsgOfStore(GetStoreOrd, vc)
            /\ bcvc' = [vc EXCEPT !.C = vc.C + 1]

\* The consumer's attempt to take a value, made on both.
PairPop ==
  /\ prog = "pair" /\ ci < M
  /\ PairSpit /\ PairGet
  /\ UNCHANGED <<prog, N, value, vW, oldValue, secondVars, prodVars, bpvc, bres,
                 cpc, ch, ct, cnext, cval, ck,
                 accepted, issued, raceW>>

\* The two drivers of the pair.
Pair == PairPush \/ PairPop

\* ------------------------------------------ a second thread of a role
\* The two-thread discipline broken: next to the producer and the consumer a
\* second thread makes one call (qj counts it): a sink_value or a spit_value on
\* the ring, or a set on the mailbox, with a value of its own, M.  Its steps
\* are those of the calls above.  The epochs wEpoch, rEpoch, vW, vR
\* remain those of the first producer and consumer; qseen holds the clocks
\* the second thread has acquired, and an access of the second thread to a
\* slot whose last access by them it has not acquired is a race.

\* sink_value(&ring, M)
QCallSink ==
  /\ prog = "ring" /\ qpc = "q_idle" /\ qj = 0
  /\ qpc' = "q_sink_head"
  /\ qval' = M
  /\ UNCHANGED <<prog, N, ringVars, boxVars, prodVars, consVars, histVars,
                 pairVars, qj, qh, qt, qnext, qres, qseen>>

\* let head = b.head.load(Ordering::Acquire);
QSinkLoadHead ==
  /\ qpc = "q_sink_head"
  /\ qh' = head
  /\ qseen' = AfterLoad(SinkHeadLoadOrd, qseen, headMsg)
  /\ qpc' = "q_sink_tail"
  /\ UNCHANGED <<prog, N, ringVars, boxVars, prodVars, consVars, histVars,
                 pairVars, qj, qval, qt, qnext, qres>>

\* let tail = b.tail.load(Ordering::Relaxed); let next = (tail + 1) % N;
\* if next == head { return Err(val); }
QSinkLoadTail ==
  /\ qpc = "q_sink_tail"
  /\ qseen' = AfterLoad(SinkTailLoadOrd, qseen, tailMsg)
  /\ IF SinkFull((tail + 1) % N, qh)
       THEN /\ qres' = Err(qval)
            /\ qpc' = "q_idle"
            /\ qj' = qj + 1
            /\ qh' = 0
            /\ UNCHANGED <<qt, qnext>>
       ELSE /\ qt' = tail
            /\ qnext' = (tail + 1) % N
            /\ qpc' = "q_sink_write"
            /\ UNCHANGED <<qh, qres, qj>>
  /\ UNCHANGED <<prog, N, ringVars, boxVars, prodVars, consVars, histVars,
                 pairVars, qval>>

\* unsafe { (*b.bufr.get())[tail].as_mut_ptr().write(val) };
QSinkWrite ==
  /\ qpc = "q_sink_write"
  /\ old' = [old EXCEPT ![qt] = bufr[qt]]
  /\ bufr' = [bufr EXCEPT ![qt] = qval]
  /\ live' = [live EXCEPT ![qt] = TRUE]
  /\ raceW' = (raceW \/ wEpoch[qt] > qseen.P \/ rEpoch[qt] > qseen.C)
  /\ qpc' = "q_sink_store"
  /\ UNCHANGED <<prog, N, head, tail, headMsg, tailMsg, wEpoch, rEpoch,
                 boxVars, prodVars, consVars, accepted, issued, popped, raceR,
                 pairVars, qj, qval, qh, qt, qnext, qres, qseen>>

\* b.tail.store(next, Ordering::Release); Ok(())
QSinkStore ==
  /\ qpc = "q_sink_store"
  /\ tail' = qnext
  /\ tailMsg' = MsgOfStore(SinkTailStoreOrd, qseen)
  /\ accepted' = Append(accepted, qval)
  /\ qres' = Ok
  /\ qpc' = "q_idle"
  /\ qj' = qj + 1
  /\ qh' = 0 /\ qt' = 0 /\ qnext' = 0
  /\ UNCHANGED <<prog, N, bufr, head, headMsg, wEpoch, rEpoch, old, live,
                 boxVars, prodVars, consVars, issued, popped, raceR, raceW,
                 pairVars, qval, qseen>>

\* spit_value(&ring)
QCallSpit ==
  /\ prog = "ring" /\ qpc = "q_idle" /\ qj = 0
  /\ qpc' = "q_spit_head"
  /\ UNCHANGED <<prog, N, ringVars, boxVars, prodVars, consVars, histVars,
                 pairVars, qj, qval, qh, qt, qnext, qres, qseen>>

\* let head = b.head.load(Ordering::Acquire);
QSpitLoadHead ==
  /\ qpc = "q_spit_head"
  /\ qh' = head
  /\ qseen' = AfterLoad(SpitHeadLoadOrd, qseen, headMsg)
  /\ qpc' = "q_spit_tail"
  /\ UNCHANGED <<prog, N, ringVars, boxVars, prodVars, consVars, histVars,
                 pairVars, qj, qval, qt, qnext, qres>>

\* let tail = b.tail.load(Ordering::Relaxed); let next = (head + 1) % N;
\* if head == tail { return None; }
QSpitLoadTail ==
  /\ qpc = "q_spit_tail"
  /\ qseen' = AfterLoad(SpitTailLoadOrd, qseen, tailMsg)
  /\ IF SpitEmpty(qh, tail)
       THEN /\ qres' = None
            /\ qpc' = "q_idle"
            /\ qj' = qj + 1
            /\ qh' = 0
            /\ UNCHANGED <<qt, qnext>>
       ELSE /\ qt' = tail
            /\ qnext' = (qh + 1) % N
            /\ qpc' = "q_spit_read"
            /\ UNCHANGED <<qh, qres, qj>>
  /\ UNCHANGED <<prog, N, ringVars, boxVars, prodVars, consVars, histVars,
                 pairVars, qval>>

\* let val = unsafe { (*b.bufr.get())[head].as_ptr().read() };
QSpitRead ==
  /\ qpc = "q_spit_read"
  /\ \E v \in ReadOutcomes(bufr[qh], old[qh], wEpoch[qh], qseen.P) : qval' = v
  /\ live' = [live EXCEPT ![qh] = FALSE]
  /\ raceR' = (raceR \/ wEpoch[qh] > qseen.P)
  /\ qpc' = "q_spit_store"
  /\ UNCHANGED <<prog, N, bufr, head, tail, headMsg, tailMsg, wEpoch, rEpoch,
                 old, boxVars, prodVars, consVars, accepted, issued, popped,
                 raceW, pairVars, qj, qh, qt, qnext, qres, qseen>>

\* b.head.store(next, Ordering::Release); Some(val)
QSpitStore ==
  /\ qpc = "q_spit_store"
  /\ head' = qnext
  /\ headMsg' = MsgOfStore(SpitHeadStoreOrd, qseen)
  /\ popped' = Append(popped, qval)
  /\ qres' = Some(qval)
  /\ qpc' = "q_idle"
  /\ qj' = qj + 1
  /\ qh' = 0 /\ qt' = 0 /\ qnext' = 0 /\ qval' = 0
  /\ UNCHANGED <<prog, N, bufr, tail, tailMsg, wEpoch, rEpoch, old, live,
                 boxVars, prodVars, consVars, accepted, issued, raceR, raceW,
                 pairVars, qseen>>

\* mailbox.set(M)
QCallSet ==
  /\ prog = "box" /\ qpc = "q_idle" /\ qj = 0
  /\ qpc' = "q_set_load"
  /\ qval' = M
  /\ UNCHANGED <<prog, N, ringVars, boxVars, prodVars, consVars, histVars,
                 pairVars, qj, qh, qt, qnext, qres, qseen>>

\* while self.packed.load(Ordering::Acquire) { thread::yield_now(); }
QSetLoad ==
  /\ qpc = "q_set_load"
  /\ qseen' = AfterLoad(SetLoadOrd, qseen, packedMsg)
  /\ qpc' = IF packed THEN qpc ELSE "q_set_write"
  /\ UNCHANGED <<prog, N, ringVars, boxVars, prodVars, consVars, histVars,
                 pairVars, qj, qval, qh, qt, qnext, qres>>

\* unsafe { self._ptr().write(value) };
QSetWrite ==
  /\ qpc = "q_set_write"
  /\ oldValue' = value
  /\ value' = qval
  /\ raceW' = (raceW \/ vW > qseen.P \/ vR > qseen.C)
  /\ qpc' = "q_set_store"
  /\ UNCHANGED <<prog, N, ringVars, packed, packedMsg, vW, vR,
                 prodVars, consVars, accepted, issued, popped, raceR,
                 pairVars, qj, qval, qh, qt, qnext, qres, qseen>>

\* self.packed.store(true, Ordering::Release);
QSetStore ==
  /\ qpc = "q_set_store"
  /\ packed' = TRUE
  /\ packedMsg' = MsgOfStore(SetStoreOrd, qseen)
  /\ accepted' = Append(accepted, qval)
  /\ qres' = Ok
  /\ qpc' = "q_idle"
  /\ qj' = qj + 1
  /\ UNCHANGED <<prog, N, ringVars, value, vW, vR, oldValue,
                 prodVars, consVars, issued, popped, raceR, raceW,
                 pairVars, qval, qh, qt, qnext, qseen>>

\* The second thread.
Second ==
  \/ QCallSink \/ QSinkLoadHead \/ QSinkLoadTail \/ QSinkWrite \/ QSinkStore
  \/ QCallSpit \/ QSpitLoadHead \/ QSpitLoadTail \/ QSpitRead \/ QSpitStore
  \/ QCallSet \/ QSetLoad \/ QSetWrite \/ QSetStore

\* ---------------------------------------------------------------- Next
Producer ==
  \/ ProduceLoop \/ SinkLoadHead \/ SinkLoadTail \/ SinkWrite \/ SinkStore
  \/ ProduceRet
  \/ BoxProduceLoop \/ SetLoad \/ SetWrite \/ SetStore \/ BoxProduceRet

Consumer ==
  \/ ConsumeLoop \/ SpitLoadHead \/ SpitLoadTail \/ SpitRead \/ SpitStore
  \/ ConsumeRet
  \/ BoxConsumeLoop \/ GetLoad \/ GetRead \/ GetStore \/ BoxConsumeRet

Next == Producer \/ Consumer \/ Tester \/ Pair

Spec == Init /\ [][Next]_vars

\* Both threads are scheduled again and again (thread::spawn on a fair OS
\* scheduler; yield_now gives the processor away and gets it back).
FairSpec == Spec /\ WF_vars(Producer) /\ WF_vars(Consumer)

\* The ring and the mailbox used by three threads: the producer and the
\* consumer of test_threaded_spsc / main and the second thread.
MisuseInit == Start("q_idle") /\ prog \in {"ring", "box"}
MisuseNext == Producer \/ Consumer \/ Second
MisuseSpec == MisuseInit /\ [][MisuseNext]_vars

\* =============================================================== claims
IsPrefix(s, t) == Len(s) <= Len(t) /\ SubSeq(t, 1, Len(s)) = s
\* <<0, 1, .., n-1>>
Upto(n) == [k \in 1..n |-> k - 1]

\* C1: ring FIFO / exactly-once: in every reachable state of the ring program
\* the sequence of values returned by successful spit_value calls is a prefix
\* of the sequence of values accepted (Ok) by sink_value.
C1_RingFifo == prog = "ring" => IsPrefix(popped, accepted)

\* C2: ring stress termination: for a ring that can hold a value (N >= 2),
\* under fair scheduling both loops of test_threaded_spsc eventually finish and
\* the consumer has then observed 0..M-1, each once, in ascending order.
C2_StressTerminates ==
  (prog = "ring" /\ N >= 2) =>
    <>(ppc = "p_done" /\ cpc = "c_done" /\ popped = Upto(M))

\* Accepted pushes before the sink_value call that has just returned.
AcceptedBefore == IF pres.kind = "Ok" THEN Len(accepted) - 1 ELSE Len(accepted)

\* C3: ring boundary: when a sink_value call returns, if no pop had completed
\* when it loaded head then it returned Ok if fewer than N-1 values had been
\* accepted before it, and Err carrying the value it was given if N-1 had; and
\* if exactly one pop had completed and N-1 values had been accepted before
\* it, it returned Ok.
C3_Boundary ==
  (prog = "ring" /\ ppc = "p_ret") =>
    /\ (pcallH = 0 /\ AcceptedBefore < N - 1) => pres = Ok
    /\ (pcallH = 0 /\ AcceptedBefore = N - 1) => pres = Err(pi)
    /\ (pcallH = 1 /\ AcceptedBefore = N - 1) => pres = Ok
\* The value refused by the N-th push is accepted after one pop.
C3_Witness ==
  /\ prog = "ring" /\ N >= 3 /\ ppc = "p_ret" /\ pres = Ok
  /\ pretried /\ pcallH = 1 /\ Len(accepted) = N

\* C4: Full is reported without effect: the step of sink_value that observes
\* (tail+1) mod N = head returns Err with exactly the value passed in, and
\* neither it nor the head load before it changes head, tail, a slot or the
\* accepted values.
C4_FullNoEffect ==
  [][/\ (prog = "ring" /\ ppc = "sink_tail" /\ ppc' # ppc /\ (tail + 1) % N = ph)
          => /\ ppc' = "p_ret" /\ pres' = Err(pval)
             /\ UNCHANGED <<head, tail, bufr, wEpoch, accepted>>
     /\ (prog = "ring" /\ ppc = "sink_head" /\ ppc' # ppc)
          => UNCHANGED <<head, tail, bufr, wEpoch, accepted>>]_vars
\* A push refused by a ring that holds N-1 values.
C4_Witness ==
  /\ prog = "ring" /\ N >= 2 /\ ppc = "p_ret" /\ pres = Err(pi)
  /\ Len(accepted) - Len(popped) = N - 1

\* C5: Empty is reported without effect: the step of spit_value that loads
\* tail on a ring with head = tail, and the step of get that loads a false
\* flag, return None, read no slot and change neither head, tail, the flag nor
\* a slot; the head load before it changes nothing either.
C5_EmptyNoEffect ==
  [][/\ (prog = "ring" /\ cpc = "spit_tail" /\ cpc' # cpc /\ head = tail)
          => /\ cpc' = "c_ret" /\ cres' = None
             /\ UNCHANGED <<head, tail, bufr, rEpoch, popped, raceR>>
     /\ (prog = "ring" /\ cpc = "spit_head" /\ cpc' # cpc)
          => UNCHANGED <<head, tail, bufr, rEpoch, popped, raceR>>
     /\ (prog = "box" /\ cpc = "get_load" /\ cpc' # cpc /\ ~packed)
          => /\ cpc' = "c_ret" /\ cres' = None
             /\ UNCHANGED <<packed, value, vR, popped, raceR>>]_vars
\* spit_value returned None on a freshly constructed, never-written ring.
C5_Witness ==
  /\ prog = "ring" /\ N >= 2 /\ cpc = "c_ret" /\ cres = None
  /\ issued = <<>> /\ \A i \in 0..(N - 1) : wEpoch[i] = 0 /\ rEpoch[i] = 0

\* C6: mailbox exactly-once in-order delivery: the sequence of values returned
\* by successful get calls is a prefix of the sequence of values passed to the
\* set calls started so far (0, 1, 2, .. in this order, each once).
C6_BoxDelivery ==
  prog = "box" => (IsPrefix(popped, issued) /\ issued = Upto(Len(issued)))
\* Every value of the run was delivered.
C6_Witness == prog = "box" /\ popped = Upto(M) /\ cpc = "c_done"

\* C7: mailbox set blocks exactly while occupied: while the flag is true a set
\* call stays at its flag load and the slot is not written; set writes the
\* slot and stores the flag only with the flag false; and under fair
\* scheduling, with the consumer of main calling get, every set call
\* eventually completes (its value written, the flag set, the call returned).
C7_SetBlocks ==
  /\ [][/\ (prog = "box" /\ ppc = "set_load" /\ packed)
             => (ppc' = "set_load" /\ value' = value /\ accepted' = accepted)
        /\ (prog = "box" /\ ppc \in {"set_write", "set_store"} /\ ppc' # ppc)
             => ~packed]_vars
  /\ \A k \in 0..(M - 1) :
       (prog = "box" /\ ppc = "set_load" /\ pi = k) ~> (Len(accepted) > k)
\* A set call that found the flag true, waited, and has returned.
C7_Witness ==
  prog = "box" /\ ppc = "p_ret" /\ pretried /\ packed /\ value = pi

\* C8: consumer-side synchronization: spit_value loads tail with Acquire and
\* head with Relaxed, and whenever the consumer is about to plain-read
\* slot[head], the producer's last write of that slot happens-before the read
\* (the consumer's clock covers the write's epoch).
C8_ReadAfterWrite ==
  (prog = "ring" /\ cpc = "spit_read") =>
    /\ SpitTailLoadOrd = "Acquire" /\ SpitHeadLoadOrd = "Relaxed"
    /\ wEpoch[ch] > 0 /\ wEpoch[ch] <= cvc.P

\* C9: producer-side synchronization: sink_value loads head with Acquire and
\* tail with Relaxed and publishes tail with Release, and whenever the producer
\* is about to plain-write slot[tail], the consumer's last read of that slot
\* happens-before the write (the producer's clock covers the read's epoch).
C9_WriteAfterRead ==
  /\ (prog = "ring" /\ ppc = "sink_write") =>
       /\ SinkHeadLoadOrd = "Acquire" /\ SinkTailLoadOrd = "Relaxed"
       /\ SinkTailStoreOrd = "Release"
       /\ rEpoch[pt] <= pvc.C
  /\ prog = "ring" => ~raceW
\* A second-lap write: the slot about to be written was read before.
C9_Witness ==
  prog = "ring" /\ ppc = "sink_write" /\ rEpoch[pt] > 0 /\ wEpoch[pt] > 0

\* C10: non-blocking try-operations: sink_value and spit_value finish within
\* 4 of their own steps and get within 3, in every state the other thread can
\* be in (it may stop anywhere, Spec has no fairness), and inside these calls
\* the thread's next step is always enabled and moves it forward; a set call
\* at its flag load cannot move forward while the flag is true, and can when
\* it is false.
C10_NonBlocking ==
  /\ prog = "ring" => (pk <= 4 /\ ck <= 4)
  /\ prog = "box" => ck <= 3
  /\ (prog = "ring" /\ ppc \in {"sink_head", "sink_tail", "sink_write", "sink_store"})
       => ENABLED (Producer /\ ppc' # ppc)
  /\ cpc \in {"spit_head", "spit_tail", "spit_read", "spit_store",
              "get_load", "get_read", "get_store"}
       => ENABLED (Consumer /\ cpc' # cpc)
  /\ (prog = "box" /\ ppc = "set_load") => (packed <=> ~ENABLED (Producer /\ ppc' # ppc))
\* The consumer stands still between its slot read and its head store while a
\* sink_value call has run to its end (refused: the ring is full).
C10_Witness ==
  /\ prog = "ring" /\ N >= 2 /\ cpc = "spit_store"
  /\ ppc = "p_ret" /\ pres.kind = "Err" /\ pk = 2

\* ------------------------------------------------------ occupancy
\* Number of logically occupied slots of the ring.
Occupancy == (tail - head) % N
\* Number of accepted values no successful pop has consumed yet.
Unpopped == Len(accepted) - Len(popped)

\* C12: in every reachable state of the ring with one producer and one
\* consumer, head and tail are in 0..N-1 and (tail - head) mod N, which is
\* at most N-1, is the number of accepted values not popped yet; head = tail
\* exactly when every accepted value has been popped, and
\* (tail + 1) mod N = head exactly when N-1 accepted values are unpopped.
C12_Occupancy ==
  prog = "ring" =>
    /\ head \in 0..(N - 1) /\ tail \in 0..(N - 1)
    /\ Occupancy <= N - 1
    /\ Occupancy = Unpopped
    /\ (head = tail) <=> (Unpopped = 0)
    /\ ((tail + 1) % N = head) <=> (Unpopped = N - 1)
\* A full ring whose indices have wrapped around.
C12_Witness ==
  /\ prog = "ring" /\ N >= 3
  /\ (tail + 1) % N = head /\ tail < head
  /\ Unpopped = N - 1

\* ------------------------------------------------------ slot liveness
\* Index i lies in the half-open range [head, tail) modulo N.
InRange(i) == (i - head) % N < Occupancy

\* C13 (as claimed): in every reachable state, the states between a slot
\* access and the following index store included, slot i holds a written,
\* not yet read value if and only if i lies in [head, tail) modulo N.
C13_SlotLiveness ==
  prog = "ring" => \A i \in 0..(N - 1) : live[i] <=> InRange(i)

\* C13 (amended): slot i holds a written, not yet read value if and only if
\* i lies in [head, tail) modulo N, except in the states between a slot
\* access and the following index store: after the producer's write and
\* before its tail store slot[tail] is already live though outside the
\* range, and after the consumer's read and before its head store slot[head]
\* is no longer live though inside the range.
C13_SlotLivenessAmended ==
  prog = "ring" =>
    \A i \in 0..(N - 1) :
      live[i] <=> \/ InRange(i) /\ ~(cpc = "spit_store" /\ i = ch)
                  \/ ppc = "sink_store" /\ i = pt
\* Both exceptions at once, on a ring whose indices have wrapped around.
C13_Witness ==
  /\ prog = "ring" /\ N >= 3 /\ tail < head
  /\ ppc = "sink_store" /\ pt = tail /\ live[pt] /\ ~InRange(pt)
  /\ cpc = "spit_store" /\ ch = head /\ ~live[ch] /\ InRange(ch)

\* ------------------------------------------------------ slot accesses
\* Writes and reads of the mailbox slot made so far.
BoxWrites == Len(accepted) + (IF ppc = "set_store" THEN 1 ELSE 0)
BoxReads == Len(popped) + (IF cpc = "get_store" THEN 1 ELSE 0)

\* C14: with one producer and one consumer the accesses of every ring slot
\* and of the mailbox slot alternate write, read, write, read, ... starting
\* with a write: a slot about to be written holds no unread value, a slot
\* about to be read holds an unread value, the producer's write and the
\* consumer's read of one slot are never pending together, and no write and
\* read of one slot are concurrent, that is unordered by happens-before.
C14_Alternation ==
  /\ prog = "ring" =>
        /\ ppc = "sink_write" => ~live[pt]
        /\ cpc = "spit_read" => live[ch]
        /\ ~(ppc = "sink_write" /\ cpc = "spit_read" /\ pt = ch)
  /\ prog = "box" =>
        /\ BoxWrites - BoxReads \in {0, 1}
        /\ ppc = "set_write" => BoxWrites = BoxReads
        /\ cpc = "get_read" => BoxWrites = BoxReads + 1
        /\ ~(ppc = "set_write" /\ cpc = "get_read")
  /\ ~raceR /\ ~raceW

\* ------------------------------------------------------ mailbox flag
\* C15: the mailbox flag goes false -> true only by the store of set, after
\* set has written the slot, and true -> false only by the store of get,
\* after get has read the slot; so get reads the slot only when it holds a
\* written value, no set write is pending and the write happens-before the
\* read, and set writes the slot only when every written value has been read
\* and the read happens-before the write.
C15_FlagProtocol ==
  /\ [][prog = "box" =>
          /\ (~packed /\ packed') =>
                ppc = "set_store" /\ ppc' = "p_ret" /\ value = pval
          /\ (packed /\ ~packed') =>
                cpc = "get_store" /\ cpc' = "c_ret" /\ cval = value]_vars
  /\ [](prog = "box" =>
          /\ cpc = "get_read" =>
                /\ packed /\ ppc \notin {"set_write", "set_store"}
                /\ BoxWrites = BoxReads + 1
                /\ vW > 0 /\ vW <= cvc.P
          /\ ppc = "set_write" =>
                /\ ~packed /\ cpc \notin {"get_read", "get_store"}
                /\ BoxWrites = BoxReads
                /\ vR <= pvc.C)
\* get about to read a value while the producer waits in set with the next.
C15_Witness ==
  /\ prog = "box" /\ cpc = "get_read" /\ packed
  /\ ppc = "set_load" /\ pretried /\ Len(popped) >= 1

\* ------------------------------------------------------ frame
\* C16: sink_value never changes head and spit_value never changes tail or
\* a slot; of the steps of sink_value only the slot write changes a slot,
\* and only slot[tail], and only the final store changes tail, to
\* (tail + 1) mod N; of the steps of spit_value only the final store changes
\* head, to (head + 1) mod N.
C16_SingleWriter ==
  [][prog = "ring" =>
       /\ ppc' # ppc => head' = head
       /\ cpc' # cpc => tail' = tail /\ bufr' = bufr
       /\ (ppc' # ppc /\ ppc = "sink_write") =>
             /\ pt = tail /\ tail' = tail
             /\ bufr' = [bufr EXCEPT ![tail] = pval]
       /\ (ppc' # ppc /\ ppc = "sink_store") =>
             /\ tail' = (tail + 1) % N /\ bufr' = bufr
             /\ pres' = Ok
       /\ (ppc' # ppc /\ ppc \notin {"sink_write", "sink_store"}) =>
             tail' = tail /\ bufr' = bufr
       /\ (cpc' # cpc /\ cpc = "spit_store") =>
             head' = (head + 1) % N /\ cres'.kind = "Some"
       /\ (cpc' # cpc /\ cpc # "spit_store") => head' = head]_vars
\* A successful sink_value and a successful spit_value have just returned,
\* each having wrapped its index around to 0.
C16_Witness ==
  /\ prog = "ring" /\ N >= 2
  /\ ppc = "p_ret" /\ pres = Ok /\ tail = 0
  /\ cpc = "c_ret" /\ cres.kind = "Some" /\ head = 0
  /\ Len(accepted) >= N /\ Len(popped) >= N

\* ------------------------------------------------------ smallest rings
\* C20: on a ring with N = 1 every sink_value returns Err with the value
\* handed back and every spit_value returns None, so nothing is ever
\* accepted, stored or popped; from N = 2 on the first sink_value on the
\* fresh ring returns Ok, and a ring with N = 2 holds at most one value.
C20_Degenerate ==
  prog = "ring" =>
    /\ N = 1 =>
          /\ ppc = "p_ret" => pres = Err(pval)
          /\ cpc = "c_ret" => cres = None
          /\ accepted = <<>> /\ popped = <<>> /\ bufr[0] = Uninit
          /\ ppc # "p_done" /\ cpc # "c_done"
    /\ N >= 2 => ((ppc = "p_ret" /\ Len(issued) = 1) => pres = Ok)
    /\ N = 2 => Unpopped \in {0, 1}
\* N = 1: a retried sink_value and a spit_value have both just failed.
C20_Witness ==
  /\ prog = "ring" /\ N = 1
  /\ ppc = "p_ret" /\ pretried /\ pres = Err(0)
  /\ cpc = "c_ret" /\ cres = None

\* ------------------------------------------------------ linearizability
\* C19: every execution of one producer and one consumer on the ring is an
\* execution of an atomic FIFO queue of capacity N-1 holding the accepted,
\* not yet popped values, each call taking effect at one of its own steps:
\* a successful sink_value at its tail store (the queue is not full and the
\* value is appended), a successful spit_value at its head store (the queue
\* is not empty and the call returns its first value), a failed sink_value
\* at its head load (the queue held N-1 values then), a failed spit_value at
\* its tail load (the queue is empty then).
C19_Linearizable ==
  [][prog = "ring" =>
       /\ (ppc = "sink_store" /\ ppc' = "p_ret") =>
             /\ Unpopped < N - 1
             /\ accepted' = Append(accepted, pval) /\ pres' = Ok
       /\ (cpc = "spit_store" /\ cpc' = "c_ret") =>
             /\ Unpopped > 0
             /\ cres' = Some(accepted[Len(popped) + 1])
             /\ Len(popped') = Len(popped) + 1
       /\ (ppc = "sink_tail" /\ ppc' = "p_ret") =>
             /\ pres' = Err(pval) /\ accepted' = accepted
             /\ Len(accepted) - pcallH = N - 1
       /\ (cpc = "spit_tail" /\ cpc' = "c_ret") =>
             /\ cres' = None /\ popped' = popped
             /\ Unpopped = 0]_vars

\* ------------------------------------------------------ round trip
\* What C17 states of test_seq_spsc on a ring of the sizes SizesOK holds:
\* before each iteration i the ring is empty with head = tail = i mod N,
\* sink_value(i) returns Ok, the spit_value that follows returns Some(i) and
\* leaves the ring empty again, so the test never panics and runs all its
\* iterations.
RoundTrip(SizesOK) ==
  (prog = "seq" /\ SizesOK) =>
    /\ ppc # "p_panic"
    /\ ppc \in {"p_loop", "seq_sink", "p_done"} =>
         /\ head = tail /\ head = pi % N
         /\ accepted = Upto(pi) /\ popped = Upto(pi)
         /\ pi > 0 => cres = Some(pi - 1)
         /\ \A i \in 0..(N - 1) : ~live[i]
    /\ ppc = "seq_spit" =>
         /\ pres = Ok /\ tail = (head + 1) % N /\ head = pi % N
         /\ accepted = Upto(pi + 1) /\ popped = Upto(pi)
         /\ bufr[head] = pi /\ live[head]
    /\ ppc = "p_done" => pi = M
    /\ ~raceR /\ ~raceW

\* C17 (as claimed): on an empty ring, at every index position and after any
\* number of wrap-arounds, sink_value(v) returns Ok and the spit_value that
\* follows returns Some(v) and leaves the ring empty, repetition after
\* repetition.
C17_RoundTrip == RoundTrip(TRUE)

\* C17 (amended): the same, for rings with N >= 2.
C17_RoundTripAmended == RoundTrip(N >= 2)
\* All the round trips of the test done, the indices having wrapped around.
C17_Witness ==
  /\ prog = "seq" /\ N >= 2 /\ ppc = "p_done"
  /\ Len(popped) > N /\ popped = accepted /\ accepted = issued
  /\ head = tail

\* ------------------------------------------------------ mailbox and ring
\* C18: the mailbox and the ring with N = 2, driven by the same producer and
\* consumer operations, stay related by "the flag is true if and only if
\* head # tail, and the mailbox slot equals slot[head] of the ring when
\* occupied", and every operation returns the same result on both: a set
\* attempt has to be retried exactly when sink_value returns Err, and get
\* returns what spit_value returns.
C18_BoxIsRing ==
  prog = "pair" =>
    /\ packed <=> head # tail
    /\ packed => value = bufr[head]
    /\ bres = pres
    /\ gres = cres

\* ------------------------------------------------------ two callers
\* Exactly-once accounting: every accepted value has either been popped or
\* is held, the ring holding (tail - head) mod N values and the mailbox one
\* when its flag is true.
Accounted ==
  \/ prog = "ring" /\ Unpopped \in 0..(N - 1) /\ Occupancy = Unpopped
  \/ prog = "box" /\ Unpopped = (IF packed THEN 1 ELSE 0)

\* The step is the final store of a call, made after another call of the same
\* role has stored the index or flag the call had loaded.
StaleStore ==
  \/ ppc = "sink_store" /\ ppc' # ppc /\ pt # tail
  \/ qpc = "q_sink_store" /\ qpc' # qpc /\ qt # tail
  \/ cpc = "spit_store" /\ cpc' # cpc /\ ch # head
  \/ qpc = "q_spit_store" /\ qpc' # qpc /\ qh # head
  \/ ppc = "set_store" /\ ppc' # ppc /\ packed
  \/ qpc = "q_set_store" /\ qpc' # qpc /\ packed

\* C11: with two threads calling sink_value (or spit_value, or set) on the
\* same ring or mailbox there are calls that overlap, and the final store of
\* a call that another call of the same role has overtaken always breaks the
\* exactly-once accounting: the index or flag it stores does not count the
\* value it accepts, which is lost or has overwritten an accepted value, or
\* the value it returns, which is returned twice.
C11_TwoCallers ==
  [][(Accounted /\ StaleStore) => ~Accounted']_vars
\* Two overlapping sink_value calls have both returned Ok, nothing has been
\* popped, and one of the two accepted values is in no slot of the ring.
C11_Witness ==
  /\ prog = "ring" /\ popped = <<>> /\ Len(accepted) = 2
  /\ ppc = "p_ret" /\ pres = Ok /\ qpc = "q_idle" /\ qres = Ok
  /\ Occupancy = 1
  /\ \E k \in 1..2 : \A i \in 0..(N - 1) : bufr[i] # accepted[k]
\* One accepted value returned by two overlapping spit_value calls.
C11_ReturnedTwice ==
  /\ prog = "ring" /\ Len(accepted) = 1 /\ Len(popped) = 2
  /\ popped[1] = accepted[1] /\ popped[2] = accepted[1]
\* Two overlapping set calls have both returned, nothing has been taken, and
\* the mailbox holds one of the two accepted values.
C11_BoxOverwritten ==
  /\ prog = "box" /\ popped = <<>> /\ Len(accepted) = 2
  /\ ppc = "p_ret" /\ qpc = "q_idle" /\ qj = 1
  /\ cpc \in {"c_loop", "get_load", "c_ret"}

====
